---------------------------- MODULE Spec2Model ----------------------------
(***************************************************************************)
(* Model of solar_roi_app.py: the ROI estimator calculate_solar_roi and    *)
(* the Streamlit script around it (sidebar navigation, the input form,     *)
(* the Calculate button handler and the session state).                    *)
(*                                                                         *)
(* Numbers.  The estimator computes with Python floats.  The model         *)
(* computes the same expressions, in the same order, in IEEE 754 binary64  *)
(* with its rounding, so that a returned value of the model is the value   *)
(* the program returns, bit for bit.                                       *)
(***************************************************************************)
EXTENDS Integers, Sequences, FiniteSets, TLC

VARIABLES
    page,           \* the sidebar's "Choose Section" selectbox
    form,           \* the values of the widgets of the Input Details page
    session_state,  \* st.session_state, a dict
    message,        \* the banner the last script run rendered under the button
    event,          \* the user action that caused the last script run
    callLog,        \* the invocations of calculate_solar_roi: arguments and returns
    inputs,         \* a direct call of the estimator: its argument
    results,        \* a direct call of the estimator: its return value
    pc              \* a direct call of the estimator: "start" or "returned"

vars == << page, form, session_state, message, event, callLog, inputs, results, pc >>

(***************************************************************************)
(* Natural numbers of arbitrary size: little-endian sequences of base-2^14 *)
(* digits, the most significant digit not 0; << >> is 0                    *)
(***************************************************************************)
Base == 2 ^ 14

RECURSIVE BigOfInt(_)
BigOfInt(k) == IF k = 0 THEN << >> ELSE << k % Base >> \o BigOfInt(k \div Base)

BigRest(a) == IF a = << >> THEN << >> ELSE Tail(a)
BigLow(a) == IF a = << >> THEN 0 ELSE Head(a)

RECURSIVE BigAddC(_, _, _)
BigAddC(a, b, c) ==
    IF a = << >> /\ b = << >>
    THEN (IF c = 0 THEN << >> ELSE << c >>)
    ELSE LET t == BigLow(a) + BigLow(b) + c
         IN  << t % Base >> \o BigAddC(BigRest(a), BigRest(b), t \div Base)

BigAdd(a, b) == BigAddC(a, b, 0)

RECURSIVE BigTrim(_)
BigTrim(a) ==
    IF a = << >> THEN << >>
    ELSE IF a[Len(a)] = 0 THEN BigTrim(SubSeq(a, 1, Len(a) - 1)) ELSE a

\* a - b for a >= b
RECURSIVE BigSubB(_, _, _)
BigSubB(a, b, c) ==
    IF a = << >> THEN << >>
    ELSE LET t == Head(a) - BigLow(b) - c
         IN  IF t < 0
             THEN << t + Base >> \o BigSubB(Tail(a), BigRest(b), 1)
             ELSE << t >> \o BigSubB(Tail(a), BigRest(b), 0)

BigSub(a, b) == BigTrim(BigSubB(a, b, 0))

RECURSIVE BigMulD(_, _, _)
BigMulD(a, k, c) ==
    IF a = << >>
    THEN (IF c = 0 THEN << >> ELSE << c >>)
    ELSE LET t == Head(a) * k + c
         IN  << t % Base >> \o BigMulD(Tail(a), k, t \div Base)

RECURSIVE BigMul(_, _)
BigMul(a, b) ==
    IF a = << >> \/ b = << >> THEN << >>
    ELSE IF Tail(b) = << >> THEN BigMulD(a, Head(b), 0)
    ELSE IF Head(b) = 0 THEN << 0 >> \o BigMul(a, Tail(b))
    ELSE BigAddC(BigMulD(a, Head(b), 0), << 0 >> \o BigMul(a, Tail(b)), 0)

RECURSIVE BigCmpAt(_, _, _)
BigCmpAt(a, b, i) ==
    IF i = 0 THEN 0
    ELSE IF a[i] < b[i] THEN -1
    ELSE IF a[i] > b[i] THEN 1
    ELSE BigCmpAt(a, b, i - 1)

\* -1, 0 or 1 as a < b, a = b or a > b
BigCmp(a, b) ==
    IF Len(a) < Len(b) THEN -1
    ELSE IF Len(a) > Len(b) THEN 1
    ELSE BigCmpAt(a, b, Len(a))

RECURSIVE BitLen(_)
BitLen(k) == IF k = 0 THEN 0 ELSE 1 + BitLen(k \div 2)

\* the number of binary digits of a
BigBitLen(a) == IF a = << >> THEN 0 ELSE 14 * (Len(a) - 1) + BitLen(a[Len(a)])

\* a * 2^k
BigShiftLeft(a, k) ==
    IF a = << >> THEN << >>
    ELSE [i \in 1..(k \div 14) |-> 0] \o BigMulD(a, 2 ^ (k % 14), 0)

\* quotient (not trimmed) and remainder of a by a digit k > 0
RECURSIVE BigDivDigit(_, _)
BigDivDigit(a, k) ==
    IF a = << >> THEN [q |-> << >>, r |-> 0]
    ELSE LET hi == BigDivDigit(Tail(a), k)
             cur == hi.r * Base + Head(a)
         IN  [q |-> << cur \div k >> \o hi.q, r |-> cur % k]

\* floor(a / 2^k), and whether a binary digit 1 was shifted out
BigShiftRight(a, k) ==
    LET u == k \div 14
        d == BigDivDigit(SubSeq(a, u + 1, Len(a)), 2 ^ (k % 14))
    IN  [q |-> BigTrim(d.q),
         sticky |-> d.r # 0 \/ \E i \in 1..u : i <= Len(a) /\ a[i] # 0]

\* the largest digit d >= q with b * d <= r, found bit by bit
RECURSIVE BigQuotDigit(_, _, _, _)
BigQuotDigit(r, b, q, bit) ==
    IF bit < 0 THEN q
    ELSE IF BigCmp(BigMulD(b, q + 2 ^ bit, 0), r) = 1
    THEN BigQuotDigit(r, b, q, bit - 1)
    ELSE BigQuotDigit(r, b, q + 2 ^ bit, bit - 1)

\* quotient and remainder of a by b > 0: long division, from the top digit of a
RECURSIVE BigLongDiv(_, _)
BigLongDiv(a, b) ==
    IF a = << >> THEN [q |-> << >>, r |-> << >>]
    ELSE LET hi == BigLongDiv(Tail(a), b)
             r2 == IF hi.r = << >> /\ Head(a) = 0 THEN << >> ELSE << Head(a) >> \o hi.r
             d == IF BigCmp(r2, b) = -1 THEN 0 ELSE BigQuotDigit(r2, b, 0, 13)
         IN  [q |-> IF d = 0 /\ hi.q = << >> THEN << >> ELSE << d >> \o hi.q,
              r |-> IF d = 0 THEN r2 ELSE BigSub(r2, BigMulD(b, d, 0))]

BigDivMod(a, b) ==
    IF Len(b) = 1
    THEN LET d == BigDivDigit(a, b[1])
         IN  [q |-> BigTrim(d.q), r |-> IF d.r = 0 THEN << >> ELSE << d.r >>]
    ELSE BigLongDiv(a, b)

\* the number of 0 digits at the low end of a # 0
RECURSIVE BigLowZeros(_)
BigLowZeros(a) == IF Head(a) # 0 THEN 0 ELSE 1 + BigLowZeros(Tail(a))

\* the number of 0 binary digits at the low end of k # 0
RECURSIVE LowZeroBits(_)
LowZeroBits(k) == IF k % 2 = 1 THEN 0 ELSE 1 + LowZeroBits(k \div 2)

(***************************************************************************)
(* Python floats: IEEE 754 binary64, round to nearest, ties to even.       *)
(* A float is [s, m, e]: the number s * m * 2^e, with s the sign (1 or     *)
(* -1) and m odd, of at most 53 binary digits; zero has m = 0.  The values *)
(* of the estimator stay far from the ends of the exponent range, so e is  *)
(* not bounded.  A Python int is the float of the same value: the ints of  *)
(* the program are exact in binary64 and so are their sums and products.   *)
(***************************************************************************)
Zero == [s |-> 1, m |-> << >>, e |-> 0]

\* what a division by zero yields: no number (Python raises ZeroDivisionError)
NoNumber == [s |-> 0, m |-> << >>, e |-> 0]

IsZero(x) == x.m = << >>

\* s * m * 2^e with the mantissa made odd, for m # 0
Odd(s, m, e) ==
    LET j == BigLowZeros(m)
        m1 == SubSeq(m, j + 1, Len(m))
        t == LowZeroBits(Head(m1))
    IN  [s |-> s,
         m |-> IF t = 0 THEN m1 ELSE BigTrim(BigDivDigit(m1, 2 ^ t).q),
         e |-> e + 14 * j + t]

\* the float nearest to s * (m + f) * 2^e, where 0 <= f < 1 and f > 0 iff sticky
\* (sticky only with m of 55 binary digits or more)
Round(s, m, e, sticky) ==
    LET n == BigBitLen(m)
    IN  IF n = 0 THEN Zero
        ELSE IF n <= 53 THEN Odd(s, m, e)
        ELSE LET k == n - 53
                 sh == BigShiftRight(m, k - 1)
                 half == BigDivDigit(sh.q, 2)
                 q == BigTrim(half.q)
                 up == half.r = 1 /\ (sh.sticky \/ sticky \/ q[1] % 2 = 1)
             IN  Odd(s, IF up THEN BigAddC(q, << >>, 1) ELSE q, e + k)

\* the float of the integer k
Num(k) == IF k = 0 THEN Zero
          ELSE IF k < 0 THEN Odd(-1, BigOfInt(-k), 0)
          ELSE Odd(1, BigOfInt(k), 0)

Mul(x, y) ==
    IF IsZero(x) \/ IsZero(y) THEN Zero
    ELSE Round(x.s * y.s, BigMul(x.m, y.m), x.e + y.e, FALSE)

\* the quotient is computed to 55 binary digits or more before it is rounded
Div(x, y) ==
    IF IsZero(y) THEN NoNumber
    ELSE IF IsZero(x) THEN Zero
    ELSE LET need == 55 + BigBitLen(y.m) - BigBitLen(x.m)
             t == IF need <= 0 THEN 0 ELSE 14 * ((need + 13) \div 14)
             d == BigDivMod(BigShiftLeft(x.m, t), y.m)
         IN  Round(x.s * y.s, d.q, x.e - y.e - t, d.r # << >>)

\* the float of the decimal literal k / m (k.0 / m.0 is the float nearest to it)
Frac(k, m) == Div(Num(k), Num(m))

Neg(x) == IF IsZero(x) THEN x ELSE [s |-> -x.s, m |-> x.m, e |-> x.e]

\* the position of the top binary digit of x # 0: 2^(Top(x) - 1) <= |x| < 2^Top(x)
Top(x) == BigBitLen(x.m) + x.e

\* an operand more than 66 binary places below the other is below the rounding
Add(x, y) ==
    IF IsZero(x) THEN y
    ELSE IF IsZero(y) THEN x
    ELSE IF Top(x) - Top(y) > 66 THEN x
    ELSE IF Top(y) - Top(x) > 66 THEN y
    ELSE LET e == IF x.e < y.e THEN x.e ELSE y.e
             a == BigShiftLeft(x.m, x.e - e)
             b == BigShiftLeft(y.m, y.e - e)
         IN  IF x.s = y.s THEN Round(x.s, BigAdd(a, b), e, FALSE)
             ELSE IF BigCmp(a, b) = 0 THEN Zero
             ELSE IF BigCmp(a, b) = 1 THEN Round(x.s, BigSub(a, b), e, FALSE)
             ELSE Round(y.s, BigSub(b, a), e, FALSE)

Sub(x, y) == Add(x, Neg(y))

Sign(x) == IF IsZero(x) THEN 0 ELSE x.s

\* -1, 0 or 1 as |x| < |y|, |x| = |y| or |x| > |y|, for x # 0 and y # 0
CmpAbs(x, y) ==
    IF Top(x) # Top(y) THEN (IF Top(x) < Top(y) THEN -1 ELSE 1)
    ELSE IF x.e < y.e THEN BigCmp(x.m, BigShiftLeft(y.m, y.e - x.e))
    ELSE BigCmp(BigShiftLeft(x.m, x.e - y.e), y.m)

\* -1, 0 or 1 as x < y, x = y or x > y
Cmp(x, y) ==
    IF Sign(x) # Sign(y) THEN (IF Sign(x) < Sign(y) THEN -1 ELSE 1)
    ELSE IF Sign(x) = 0 THEN 0
    ELSE x.s * CmpAbs(x, y)

Lt(x, y) == Cmp(x, y) = -1
Le(x, y) == Cmp(x, y) # 1
Gt(x, y) == Cmp(x, y) = 1
Eq(x, y) == Cmp(x, y) = 0

\* Python's min(x, y): y when y < x, else x
Min(x, y) == IF Lt(y, x) THEN y ELSE x

(***************************************************************************)
(* calculate_solar_roi                                                     *)
(***************************************************************************)
\* dict.get(key, default); a dict is a function on its keys
DictGet(d, key, default) == IF key \in DOMAIN d THEN d[key] ELSE default

\* the value of dict.get(key) for a key the dict does not hold
None == "<None>"

base_solar_irradiance == Frac(55, 10)
system_efficiency == Frac(85, 100)
panel_cost_per_kw == 45000
installation_cost_ratio == Frac(3, 10)

weather_factors ==
    [c \in {"Sunny", "Mostly Sunny", "Partly Cloudy", "Cloudy", "Rainy", "Very Cloudy"} |->
        CASE c = "Sunny" -> Num(1)
          [] c = "Mostly Sunny" -> Frac(95, 100)
          [] c = "Partly Cloudy" -> Frac(85, 100)
          [] c = "Cloudy" -> Frac(70, 100)
          [] c = "Rainy" -> Frac(60, 100)
          [] c = "Very Cloudy" -> Frac(50, 100)]

season_factors ==
    [c \in {"Summer", "Winter", "Monsoon", "Post-Monsoon"} |->
        CASE c = "Summer" -> Frac(115, 100)
          [] c = "Winter" -> Frac(80, 100)
          [] c = "Monsoon" -> Frac(65, 100)
          [] c = "Post-Monsoon" -> Frac(90, 100)]

\* faulty variant: the factor is applied again on every call after the first,
\* as if the table were scaled in place
weather_factor_stateful(in) ==
    LET f == DictGet(weather_factors, DictGet(in, "weather_condition", "Sunny"), Num(1))
    IN  IF callLog = << >> THEN f ELSE Mul(f, f)

weather_factor(in) ==
    DictGet(weather_factors, DictGet(in, "weather_condition", "Sunny"), Num(1))

\* faulty variant: an unrecognized season gets the Summer factor
season_factor_summer(in) ==
    DictGet(season_factors, DictGet(in, "dominant_season", "Summer"),
            season_factors["Summer"])

season_factor(in) ==
    DictGet(season_factors, DictGet(in, "dominant_season", "Summer"), Num(1))

\* the dust factors of High and Medium
dust_high == Frac(85, 100)
dust_medium == Frac(92, 100)

\* faulty variant: heavy shading lowers the factor
dust_factor_shading(in) ==
    IF DictGet(in, "shading_issues", "No Shading") = "Heavy Shading" THEN dust_high
    ELSE IF DictGet(in, "dust_pollution", "Low") = "High" THEN dust_high
    ELSE IF DictGet(in, "dust_pollution", "Low") = "Medium" THEN dust_medium
    ELSE Num(1)

dust_factor(in) ==
    IF DictGet(in, "dust_pollution", "Low") = "High" THEN dust_high
    ELSE IF DictGet(in, "dust_pollution", "Low") = "Medium" THEN dust_medium
    ELSE Num(1)

solar_irradiance(in) ==
    Mul(Mul(Mul(base_solar_irradiance, weather_factor(in)), season_factor(in)),
        dust_factor(in))

\* the size the consumption asks for, before the roof constraint
required_system_size(in) ==
    Div(Mul(in["monthly_units"], Num(12)),
        Mul(Mul(solar_irradiance(in), Num(365)), system_efficiency))

\* the share of the roof that panels can cover
usable_roof_share == Frac(7, 10)

max_system_size(in) == Div(Mul(in["rooftop_area"], usable_roof_share), Num(100))

\* faulty variant: the roof constraint is not applied
system_size_uncapped(in) == required_system_size(in)

system_size(in) == Min(required_system_size(in), max_system_size(in))

base_monthly_factors ==
    << Frac(85, 100), Frac(9, 10), Num(1), Frac(11, 10), Frac(115, 100),
       Frac(11, 10), Frac(105, 100), Num(1), Frac(95, 100), Frac(9, 10),
       Frac(85, 100), Frac(8, 10) >>

monsoon_adjustment ==
    << Num(1), Num(1), Num(1), Num(1), Num(1),
       Frac(7, 10), Frac(6, 10), Frac(6, 10), Frac(8, 10),
       Num(1), Num(1), Num(1) >>

\* faulty variant: the monsoon adjustment is applied whatever the season
monthly_gen_factors_any_season(in) ==
    [i \in 1..12 |-> Mul(base_monthly_factors[i], monsoon_adjustment[i])]

\* Python's list index i is the sequence index i + 1
monthly_gen_factors(in) ==
    IF DictGet(in, "dominant_season", None) = "Monsoon"
    THEN [i \in 1..12 |-> Mul(base_monthly_factors[i], monsoon_adjustment[i])]
    ELSE base_monthly_factors

base_score == 60

\* faulty variant: the scores are not clamped
Classify_unclamped(payback_years, annual_generation, monthly_consumption, weather_score_adjustment) ==
    IF Lt(payback_years, Num(5)) /\ Gt(annual_generation, Mul(monthly_consumption, Num(10)))
    THEN [suitability |-> "Excellent",
          solar_score |-> Add(Num(base_score + 30), weather_score_adjustment)]
    ELSE IF Lt(payback_years, Num(7)) /\ Gt(annual_generation, Mul(monthly_consumption, Num(8)))
    THEN [suitability |-> "Good",
          solar_score |-> Add(Num(base_score + 15), weather_score_adjustment)]
    ELSE [suitability |-> "Average",
          solar_score |-> Add(Num(base_score), weather_score_adjustment)]

\* faulty variant: the Good test is made before the Excellent test
Classify_good_first(payback_years, annual_generation, monthly_consumption, weather_score_adjustment) ==
    IF Lt(payback_years, Num(7)) /\ Gt(annual_generation, Mul(monthly_consumption, Num(8)))
    THEN [suitability |-> "Good",
          solar_score |-> Min(Num(85), Add(Num(base_score + 15), weather_score_adjustment))]
    ELSE IF Lt(payback_years, Num(5)) /\ Gt(annual_generation, Mul(monthly_consumption, Num(10)))
    THEN [suitability |-> "Excellent",
          solar_score |-> Min(Num(90), Add(Num(base_score + 30), weather_score_adjustment))]
    ELSE [suitability |-> "Average",
          solar_score |-> Min(Num(75), Add(Num(base_score), weather_score_adjustment))]

Classify(payback_years, annual_generation, monthly_consumption, weather_score_adjustment) ==
    IF Lt(payback_years, Num(5)) /\ Gt(annual_generation, Mul(monthly_consumption, Num(10)))
    THEN [suitability |-> "Excellent",
          solar_score |-> Min(Num(90), Add(Num(base_score + 30), weather_score_adjustment))]
    ELSE IF Lt(payback_years, Num(7)) /\ Gt(annual_generation, Mul(monthly_consumption, Num(8)))
    THEN [suitability |-> "Good",
          solar_score |-> Min(Num(85), Add(Num(base_score + 15), weather_score_adjustment))]
    ELSE [suitability |-> "Average",
          solar_score |-> Min(Num(75), Add(Num(base_score), weather_score_adjustment))]

\* faulty variant: the division is not guarded
payback_unguarded(total_investment, annual_savings) ==
    Div(total_investment, annual_savings)

payback(total_investment, annual_savings) ==
    IF Gt(annual_savings, Num(0)) THEN Div(total_investment, annual_savings) ELSE Num(999)

\* faulty variant: the savings follow the generation, without the min
savings_of_generation(monthly_consumption, annual_generation, monthly_bill) ==
    Mul(Div(annual_generation, Num(12)), Div(monthly_bill, monthly_consumption))

\* the monthly savings: the consumption the generation covers, at the bill's rate
savings(monthly_consumption, annual_generation, monthly_bill) ==
    Mul(Min(monthly_consumption, Div(annual_generation, Num(12))),
        Div(monthly_bill, monthly_consumption))

panel_cost(size) == Mul(size, Num(panel_cost_per_kw))

installation_cost(panel) == Mul(panel, installation_cost_ratio)

total_investment(size) ==
    LET panel == panel_cost(size)
    IN  Add(panel, installation_cost(panel))

annual_generation(size, irradiance) ==
    Mul(Mul(Mul(size, irradiance), Num(365)), system_efficiency)

monthly_generation(in, generation) ==
    [i \in 1..12 |-> Div(Mul(generation, monthly_gen_factors(in)[i]), Num(12))]

annual_roi(investment, annual_savings) ==
    IF Gt(investment, Num(0)) THEN Mul(Div(annual_savings, investment), Num(100))
    ELSE Num(0)

\* the returned dict, from the values the function has computed
\* faulty variant: the years are range(0, 20)
cumulative_savings_from_zero(annual_savings) ==
    [year \in 1..20 |-> Mul(annual_savings, Num(year - 1))]

\* [annual_savings * year for year in years], years = list(range(1, 21))
cumulative_savings(annual_savings) ==
    [year \in 1..20 |-> Mul(annual_savings, Num(year))]

return_dict(in, irradiance, size, investment, generation, monthly_savings, annual_savings, payback_years) ==
    LET class == Classify(payback_years, generation, in["monthly_units"],
                          Mul(weather_factor(in), Num(10)))
    IN  [suitability |-> class.suitability,
         solar_score |-> class.solar_score,
         system_size |-> size,
         total_investment |-> investment,
         annual_generation |-> generation,
         daily_average |-> Div(generation, Num(365)),
         peak_sun_hours |-> irradiance,
         monthly_generation |-> monthly_generation(in, generation),
         monthly_savings |-> monthly_savings,
         annual_savings |-> annual_savings,
         payback_years |-> payback_years,
         annual_roi |-> annual_roi(investment, annual_savings),
         cumulative_savings |-> cumulative_savings(annual_savings),
         total_20_year_savings |-> Mul(annual_savings, Num(20)),
         net_profit |-> Sub(Mul(annual_savings, Num(20)), investment),
         weather_impact |-> weather_factor(in),
         effective_irradiance |-> irradiance]

\* the function from the annual savings on: the payback, the projections, the class
roi_and_payback(in, irradiance, size, investment, generation, monthly_savings, annual_savings) ==
    return_dict(in, irradiance, size, investment, generation, monthly_savings,
                annual_savings, payback(investment, annual_savings))

\* the function from the annual generation on: the savings
financial_calculations(in, irradiance, size, investment, generation, monthly_savings) ==
    roi_and_payback(in, irradiance, size, investment, generation, monthly_savings,
                    Mul(monthly_savings, Num(12)))

\* the function from the system size on: the costs and the annual generation
cost_calculations(in, irradiance, size, generation) ==
    financial_calculations(in, irradiance, size, total_investment(size), generation,
                           savings(in["monthly_units"], generation, in["monthly_bill"]))

\* the function from the irradiance and the system size on: the annual generation
annual_energy_generation(in, irradiance, size) ==
    cost_calculations(in, irradiance, size, annual_generation(size, irradiance))

\* each value is computed once and handed on, as the function's local variables are
calculate_solar_roi(in) ==
    annual_energy_generation(in, solar_irradiance(in), system_size(in))

(***************************************************************************)
(* The Streamlit script                                                    *)
(***************************************************************************)
Pages == {"Input Details", "Results & Analysis", "Recommendations"}

\* the options of each widget of the Input Details page that the model lets
\* the user pick; the first one listed in DefaultForm is the widget's default
WidgetOptions ==
    [location |-> {"", "Agartala"},
     rooftop_area |-> {100, 1000},
     monthly_bill |-> {1000, 15000},
     weather_condition |-> {"Sunny", "Very Cloudy"}]

\* the widgets' values in a script run that renders them for the first time
DefaultForm ==
    [location |-> "",
     rooftop_area |-> 1000,
     roof_type |-> "Flat Roof",
     roof_condition |-> "Excellent",
     business_type |-> "Manufacturing",
     monthly_bill |-> 15000,
     avg_tariff |-> Frac(65, 10),
     operating_hours |-> 10,
     budget_range |-> "1-3 Lakhs",
     weather_condition |-> "Sunny",
     dominant_season |-> "Summer",
     sunny_days |-> 20,
     temp_range |-> "Very Hot (>40C)",
     dust_pollution |-> "Low",
     shading_issues |-> "No Shading",
     monsoon_intensity |-> "Light",
     wind_conditions |-> "Calm",
     priority |-> "Reduce Electricity Bills",
     timeline |-> "Within 3 months",
     contact_consent |-> FALSE]

\* bill_method "Monthly Bill Amount": the units are estimated from the bill
monthly_units_of(f) == Div(Num(f.monthly_bill), f.avg_tariff)

\* the dict the handler stores in st.session_state.inputs
FormInputs(f) ==
    [location |-> f.location,
     rooftop_area |-> Num(f.rooftop_area),
     monthly_units |-> monthly_units_of(f),
     monthly_bill |-> Num(f.monthly_bill),
     business_type |-> f.business_type,
     operating_hours |-> f.operating_hours,
     budget_range |-> f.budget_range,
     roof_type |-> f.roof_type,
     roof_condition |-> f.roof_condition,
     priority |-> f.priority,
     timeline |-> f.timeline,
     contact_consent |-> f.contact_consent,
     weather_condition |-> f.weather_condition,
     dominant_season |-> f.dominant_season,
     sunny_days |-> f.sunny_days,
     temp_range |-> f.temp_range,
     dust_pollution |-> f.dust_pollution,
     shading_issues |-> f.shading_issues,
     monsoon_intensity |-> f.monsoon_intensity,
     wind_conditions |-> f.wind_conditions]

\* faulty variant: the location is not required
Accepts_any_location(location, rooftop_area, monthly_units) ==
    /\ Gt(rooftop_area, Num(0))
    /\ Gt(monthly_units, Num(0))

\* the handler's test: location and rooftop_area > 0 and monthly_units > 0
Accepts(location, rooftop_area, monthly_units) ==
    /\ location # ""
    /\ Gt(rooftop_area, Num(0))
    /\ Gt(monthly_units, Num(0))

\* faulty variant: the inputs are stored before they are validated
Rejected_stores(st, in) ==
    [k \in DOMAIN st \cup {"inputs"} |-> IF k = "inputs" THEN in ELSE st[k]]

\* the session state after a request the handler rejects: st.error only
Rejected(st, in) == st

\* faulty variant: once a report is stored, a later request stores its inputs
\* but keeps the report
Accepted_keeps_results(st, in) ==
    [calculated |-> TRUE,
     results |-> IF st.calculated THEN st.results ELSE calculate_solar_roi(in),
     inputs |-> in]

\* the session state after a request the handler accepts
Accepted(st, in) ==
    [calculated |-> TRUE, results |-> calculate_solar_roi(in), inputs |-> in]

\* what a page renders of the session state: nothing
Blank == [shows |-> "nothing"]

\* what a page renders of the session state: the two report pages read
\* st.session_state.results and st.session_state.inputs under the test of
\* st.session_state.calculated; Recommendations warns otherwise, Results & Analysis
\* stays empty; Input Details reads neither
Rendered(p, st) ==
    IF p = "Results & Analysis"
    THEN IF st.calculated
         THEN [shows |-> "report", results |-> st.results, inputs |-> st.inputs]
         ELSE Blank
    ELSE IF p = "Recommendations"
    THEN IF st.calculated
         THEN [shows |-> "report", results |-> st.results, inputs |-> st.inputs]
         ELSE [shows |-> "warning"]
    ELSE Blank

MaxCalls == 2

NoCall == [inputs |-> << >>, results |-> << >>, pc |-> "idle"]

Init ==
    /\ page = "Input Details"
    /\ form = DefaultForm
    /\ session_state = [calculated |-> FALSE, results |-> << >>]
    /\ message = "none"
    /\ event = "start"
    /\ callLog = << >>
    /\ inputs = NoCall.inputs /\ results = NoCall.results /\ pc = NoCall.pc

\* the user picks another section in the sidebar; the widgets of a page that
\* is not rendered lose their values
SelectPage(p) ==
    /\ p # page
    /\ page' = p
    /\ form' = DefaultForm
    /\ message' = "none"
    /\ event' = "navigate"
    /\ UNCHANGED << session_state, callLog, inputs, results, pc >>

\* the user changes the value of one widget of the Input Details page
EditWidget(w, v) ==
    /\ page = "Input Details"
    /\ v # form[w]
    /\ form' = [form EXCEPT ![w] = v]
    /\ message' = "none"
    /\ event' = "edit"
    /\ UNCHANGED << page, session_state, callLog, inputs, results, pc >>

\* the user clicks "Calculate Weather-Adjusted Solar ROI"
ClickCalculate ==
    /\ page = "Input Details"
    /\ Len(callLog) < MaxCalls
    /\ event' = "calculate"
    /\ LET in == FormInputs(form)
       IN  IF Accepts(form.location, Num(form.rooftop_area), monthly_units_of(form))
           THEN /\ session_state' = Accepted(session_state, in)
                /\ callLog' = Append(callLog, [inputs |-> in,
                                               results |-> session_state'.results])
                /\ message' = "success"
           ELSE /\ session_state' = Rejected(session_state, in)
                /\ callLog' = callLog
                /\ message' = "error"
    /\ UNCHANGED << page, form, inputs, results, pc >>

Next ==
    \/ \E p \in Pages : SelectPage(p)
    \/ \E w \in DOMAIN WidgetOptions : \E v \in WidgetOptions[w] : EditWidget(w, v)
    \/ ClickCalculate

Spec == Init /\ [][Next]_vars

(***************************************************************************)
(* Direct calls of the estimator on inputs drawn from bounded sets         *)
(***************************************************************************)
MaxUnitsSteps == 2
MaxAreaSteps == 2

\* a key a test input leaves out
Absent == "<absent>"

Entry(key, v) == IF v = Absent THEN << >> ELSE key :> v

\* the display-only fields of a direct call
DisplayFields ==
    [location |-> "Agartala", business_type |-> "Manufacturing",
     shading_issues |-> "No Shading", sunny_days |-> 20]

\* the rooftop areas of the test inputs
TestAreas == {100} \cup {1000 * k : k \in 1..MaxAreaSteps}

\* two calls whose payback is 20 years to the last place: 6825.5 kWh for
\* 13000 a month under a 612 sq ft roof, 5460.4 kWh for 24000 under 1347 sq ft
BreakEvenInputs ==
    { [monthly_units |-> Frac(68255, 10), monthly_bill |-> Num(13000),
       rooftop_area |-> Num(612), weather_condition |-> "Sunny",
       dominant_season |-> "Post-Monsoon", dust_pollution |-> "Low"] @@ DisplayFields,
      [monthly_units |-> Frac(54604, 10), monthly_bill |-> Num(24000),
       rooftop_area |-> Num(1347), weather_condition |-> "Rainy",
       dominant_season |-> "Monsoon", dust_pollution |-> "Low"] @@ DisplayFields }

TestInputs ==
    BreakEvenInputs \cup
    { [monthly_units |-> Num(u), monthly_bill |-> Num(b),
       rooftop_area |-> Num(a)]
        @@ Entry("weather_condition", w) @@ Entry("dominant_season", s)
        @@ Entry("dust_pollution", d) @@ DisplayFields :
        u \in {700} \cup {1000 * k : k \in 1..MaxUnitsSteps}, b \in {0, 13000},
        a \in TestAreas,
        w \in {"Sunny", "Mostly Sunny", "Partly Cloudy", "Cloudy", "Rainy", "Very Cloudy",
               "Foggy", Absent},
        s \in {"Summer", "Winter", "Monsoon", "Post-Monsoon", "Spring", Absent},
        d \in {"Low", "Medium", "High", "Extreme", Absent} }

InitFn ==
    /\ inputs \in TestInputs /\ results = << >> /\ pc = "start"
    /\ page = "Input Details"
    /\ form = DefaultForm
    /\ session_state = [calculated |-> FALSE, results |-> << >>]
    /\ message = "none"
    /\ event = "start"
    /\ callLog = << >>

Estimate ==
    /\ pc = "start"
    /\ results' = calculate_solar_roi(inputs)
    /\ pc' = "returned"
    /\ UNCHANGED << inputs, page, form, session_state, message, event, callLog >>

NextFn == Estimate

SpecFn == InitFn /\ [][NextFn]_vars

(***************************************************************************)
(* Properties of the estimator, on its direct calls (SpecFn)               *)
(***************************************************************************)
Returned == pc = "returned"

Given(in, key, v) == key \in DOMAIN in /\ in[key] = v

\* Scenario A: 2000 kWh, a bill of 13000, 1000 sq ft, Sunny, Summer, Low
ScenarioA(in) ==
    /\ Eq(in["monthly_units"], Num(2000))
    /\ Eq(in["monthly_bill"], Num(13000))
    /\ Eq(in["rooftop_area"], Num(1000))
    /\ Given(in, "weather_condition", "Sunny")
    /\ Given(in, "dominant_season", "Summer")
    /\ Given(in, "dust_pollution", "Low")

\* the size the consumption asks for, from the returned effective irradiance
ClaimedRequiredSize ==
    Div(Mul(inputs["monthly_units"], Num(12)),
        Mul(Mul(results.effective_irradiance, Num(365)), Frac(85, 100)))

\* rooftop_area x 0.7 / 100
ClaimedMaxSize == Div(Mul(inputs["rooftop_area"], Frac(7, 10)), Num(100))

\* panel cost plus installation at 30 % of it, for a system of the given size
ClaimedInvestment(size) ==
    Add(Mul(size, Num(45000)), Mul(Mul(size, Num(45000)), Frac(3, 10)))

\* x and y differ by no more than the rounding of a few float operations:
\* |x - y| <= |y| * 2^-50
Close(x, y) ==
    LET d == Sub(x, y)
    IN  Le([s |-> 1, m |-> d.m, e |-> d.e],
           Mul([s |-> 1, m |-> y.m, e |-> y.e], [s |-> 1, m |-> << 1 >>, e |-> -50]))

Finite(x) == x.s # 0

\* C3. Payback sentinel: when annual_savings <= 0 (as with a bill of 0) the
\* estimator returns payback_years = 999 exactly, suitability Average and a
\* solar_score within [0, 75]; when annual_savings > 0, payback_years is
\* total_investment / annual_savings.
C3_PaybackSentinel ==
    Returned =>
        /\ Finite(results.payback_years)
        /\ IsZero(inputs["monthly_bill"]) => Le(results.annual_savings, Num(0))
        /\ IF Le(results.annual_savings, Num(0))
           THEN /\ Eq(results.payback_years, Num(999))
                /\ results.suitability = "Average"
                /\ Le(Num(0), results.solar_score)
                /\ Le(results.solar_score, Num(75))
           ELSE Eq(results.payback_years,
                   Div(results.total_investment, results.annual_savings))

C3_Witness ==
    /\ Returned
    /\ IsZero(inputs["monthly_bill"])
    /\ Le(results.annual_savings, Num(0))
    /\ Eq(results.payback_years, Num(999))

\* C4. Savings cap: for monthly_units > 0, monthly_bill >= 0 and
\* rooftop_area > 0, monthly_savings never exceeds monthly_bill and
\* annual_savings never exceeds 12 x monthly_bill.
C4_SavingsCap ==
    Returned =>
        /\ Le(results.monthly_savings, inputs["monthly_bill"])
        /\ Le(results.annual_savings, Mul(Num(12), inputs["monthly_bill"]))

\* C6. Score bounds: solar_score lies in [0, 100]; it is at most 90 when the
\* suitability is Excellent, at most 85 when Good, at most 75 when Average.
C6_ScoreBounds ==
    Returned =>
        /\ Le(Num(0), results.solar_score)
        /\ Le(results.solar_score, Num(100))
        /\ results.suitability = "Excellent" => Le(results.solar_score, Num(90))
        /\ results.suitability = "Good" => Le(results.solar_score, Num(85))
        /\ results.suitability = "Average" => Le(results.solar_score, Num(75))
        /\ Le(Frac(5, 10), results.weather_impact)
        /\ Le(results.weather_impact, Num(1))

\* the unclamped score 60 + 30 + 10 would pass 90 here
C6_Witness ==
    /\ Returned
    /\ results.suitability = "Excellent"
    /\ Eq(results.weather_impact, Num(1))
    /\ Eq(results.solar_score, Num(90))

\* the factor of the weather_condition lookup alone, in hundredths
ClaimedWeatherPercent(in) ==
    IF Given(in, "weather_condition", "Mostly Sunny") THEN 95
    ELSE IF Given(in, "weather_condition", "Partly Cloudy") THEN 85
    ELSE IF Given(in, "weather_condition", "Cloudy") THEN 70
    ELSE IF Given(in, "weather_condition", "Rainy") THEN 60
    ELSE IF Given(in, "weather_condition", "Very Cloudy") THEN 50
    ELSE 100

\* C10. Suitability, first match wins: Excellent exactly when payback_years < 5
\* and annual_generation > 10 x monthly_units; Good exactly when not Excellent
\* and payback_years < 7 and annual_generation > 8 x monthly_units; else
\* Average; solar_score is min(90, 90 + 10w), min(85, 75 + 10w) or
\* min(75, 60 + 10w), with w the weather_condition factor alone.
C10_Suitability ==
    Returned =>
        LET w == Frac(ClaimedWeatherPercent(inputs), 100)
            excellent ==
                /\ Lt(results.payback_years, Num(5))
                /\ Gt(results.annual_generation, Mul(Num(10), inputs["monthly_units"]))
            good ==
                /\ ~excellent
                /\ Lt(results.payback_years, Num(7))
                /\ Gt(results.annual_generation, Mul(Num(8), inputs["monthly_units"]))
        IN  /\ results.suitability \in {"Excellent", "Good", "Average"}
            /\ results.suitability = "Excellent" <=> excellent
            /\ results.suitability = "Good" <=> good
            /\ results.suitability = "Average" <=> (~excellent /\ ~good)
            /\ results.suitability = "Excellent" =>
                Eq(results.solar_score, Min(Num(90), Add(Num(90), Mul(Num(10), w))))
            /\ results.suitability = "Good" =>
                Eq(results.solar_score, Min(Num(85), Add(Num(75), Mul(Num(10), w))))
            /\ results.suitability = "Average" =>
                Eq(results.solar_score, Min(Num(75), Add(Num(60), Mul(Num(10), w))))

\* Good although the payback is under 5 years: the generation fails the first test;
\* the season and the dust lower the irradiance, the score uses the weather alone
C10_Witness ==
    /\ Returned
    /\ results.suitability = "Good"
    /\ Lt(results.payback_years, Num(5))
    /\ Given(inputs, "dominant_season", "Winter")
    /\ Given(inputs, "weather_condition", "Mostly Sunny")
    /\ Eq(results.solar_score, Frac(845, 10))

\* the season factor in hundredths: the table's value for a recognized season,
\* 100 for an unrecognized one, absent for a missing key
ClaimedSeasonPercent(in, absent) ==
    IF "dominant_season" \notin DOMAIN in THEN absent
    ELSE IF in["dominant_season"] = "Summer" THEN 115
    ELSE IF in["dominant_season"] = "Winter" THEN 80
    ELSE IF in["dominant_season"] = "Monsoon" THEN 65
    ELSE IF in["dominant_season"] = "Post-Monsoon" THEN 90
    ELSE 100

ClaimedDustPercent(in) ==
    IF Given(in, "dust_pollution", "High") THEN 85
    ELSE IF Given(in, "dust_pollution", "Medium") THEN 92
    ELSE 100

\* 5.5 x weather x season x dust
ClaimedIrradiance(in, absent_season) ==
    Mul(Mul(Mul(Frac(55, 10), Frac(ClaimedWeatherPercent(in), 100)),
            Frac(ClaimedSeasonPercent(in, absent_season), 100)),
        Frac(ClaimedDustPercent(in), 100))

\* C5 as stated. Enum defaults: an absent or unrecognized weather_condition,
\* dominant_season or dust_pollution gets the factor 1.00, so the effective
\* irradiance is 5.5 x the factors of the recognized inputs only.
C5_EnumDefaults_AsStated ==
    Returned =>
        /\ Eq(results.effective_irradiance, ClaimedIrradiance(inputs, 100))
        /\ Eq(results.weather_impact, Frac(ClaimedWeatherPercent(inputs), 100))

\* C5 amended. Enum defaults: an absent or unrecognized weather_condition or
\* dust_pollution and an unrecognized dominant_season get the factor 1.00; an
\* absent dominant_season gets the Summer factor 1.15; the estimator returns
\* for every combination.
C5_EnumDefaults ==
    Returned =>
        /\ Eq(results.effective_irradiance, ClaimedIrradiance(inputs, 115))
        /\ Eq(results.weather_impact, Frac(ClaimedWeatherPercent(inputs), 100))
        /\ Finite(results.system_size) /\ Finite(results.payback_years)

\* nothing recognized: the season is absent, the weather and the dust unrecognized
C5_Witness ==
    /\ Returned
    /\ "dominant_season" \notin DOMAIN inputs
    /\ Given(inputs, "weather_condition", "Foggy")
    /\ Given(inputs, "dust_pollution", "Extreme")
    /\ Eq(results.effective_irradiance, Mul(Frac(55, 10), Frac(115, 100)))

\* other values of the fields the estimator carries through for display
DisplayVariants ==
    { [location |-> l, business_type |-> "Hotel", roof_type |-> "Mixed",
       roof_condition |-> "Needs Repair", operating_hours |-> 24,
       budget_range |-> "20+ Lakhs", sunny_days |-> d, temp_range |-> "Cold (<10C)",
       shading_issues |-> sh, monsoon_intensity |-> "Very Heavy",
       wind_conditions |-> "Very Windy", priority |-> "Environmental Impact",
       timeline |-> "Just exploring", contact_consent |-> TRUE] :
        l \in {"Agra"}, d \in {5}, sh \in {"Partial Shading (Morning)", "Heavy Shading"} }

\* C7. Display-only fields do not interfere: a call whose inputs agree with
\* this one on monthly_units, monthly_bill, rooftop_area, weather_condition,
\* dominant_season and dust_pollution returns the same Results, whatever its
\* location, business_type, roof, hours, budget, sunny_days, temperature,
\* shading, monsoon, wind and other carried-through fields.
C7_DisplayOnly ==
    Returned =>
        \A other \in DisplayVariants : calculate_solar_roi(other @@ inputs) = results

C7_Witness ==
    /\ Returned
    /\ \E other \in DisplayVariants :
        /\ (other @@ inputs)["shading_issues"] # inputs["shading_issues"]
        /\ (other @@ inputs)["location"] # inputs["location"]
        /\ \A k \in {"monthly_units", "monthly_bill", "rooftop_area"} :
              (other @@ inputs)[k] = inputs[k]
        /\ calculate_solar_roi(other @@ inputs) = results

\* the base list of monthly weights, January first
ClaimedBaseWeights ==
    << Frac(85, 100), Frac(90, 100), Frac(100, 100), Frac(110, 100), Frac(115, 100),
       Frac(110, 100), Frac(105, 100), Frac(100, 100), Frac(95, 100), Frac(90, 100),
       Frac(85, 100), Frac(80, 100) >>

\* the monsoon factors of June to September: list indices 5..8, here 6..9
ClaimedMonsoonFactors == << Frac(70, 100), Frac(60, 100), Frac(60, 100), Frac(80, 100) >>

ClaimedWeight(in, i) ==
    IF Given(in, "dominant_season", "Monsoon") /\ i \in 6..9
    THEN Mul(ClaimedBaseWeights[i], ClaimedMonsoonFactors[i - 5])
    ELSE ClaimedBaseWeights[i]

\* Python's sum() of the first n values of a list
RECURSIVE SumTo(_, _)
SumTo(list, n) == IF n = 0 THEN Zero ELSE Add(SumTo(list, n - 1), list[n])

\* C11. Monthly generation shape: monthly_generation has 12 values,
\* monthly_generation[i] = annual_generation x weight[i] / 12 with weight the
\* base list, multiplied at list indices 5..8 by 0.70, 0.60, 0.60, 0.80 if and
\* only if dominant_season is Monsoon; the values are not renormalized and
\* their sum never exceeds annual_generation.
C11_MonthlyShape ==
    Returned =>
        /\ Len(results.monthly_generation) = 12
        /\ \A i \in 1..12 :
              Eq(results.monthly_generation[i],
                 Div(Mul(results.annual_generation, ClaimedWeight(inputs, i)), Num(12)))
        /\ Le(SumTo(results.monthly_generation, 12), results.annual_generation)

\* Scenario B: Scenario A with Monsoon and Very Cloudy; July is dampened by
\* 0.60 and the twelve values sum to less than the annual generation
C11_Witness ==
    /\ Returned
    /\ Eq(inputs["monthly_units"], Num(2000))
    /\ Eq(inputs["monthly_bill"], Num(13000))
    /\ Eq(inputs["rooftop_area"], Num(1000))
    /\ Given(inputs, "weather_condition", "Very Cloudy")
    /\ Given(inputs, "dominant_season", "Monsoon")
    /\ Given(inputs, "dust_pollution", "Low")
    /\ Eq(results.effective_irradiance, Frac(17875, 10000))
    /\ Eq(results.monthly_generation[7],
          Div(Mul(results.annual_generation, Mul(Frac(105, 100), Frac(60, 100))), Num(12)))
    /\ Lt(SumTo(results.monthly_generation, 12), results.annual_generation)

\* the recognized weather conditions
ClaimedWeathers ==
    {"Very Cloudy", "Rainy", "Cloudy", "Partly Cloudy", "Mostly Sunny", "Sunny"}

\* the annual generation the estimator computes for the inputs in
GenerationOf(in) == annual_generation(system_size(in), solar_irradiance(in))

\* C12, first half. Monotonicity in the roof: with every other input fixed, a
\* larger rooftop_area never gives a smaller system_size.
C12_AreaMonotone ==
    Returned =>
        \A a \in TestAreas :
            Gt(Num(a), inputs["rooftop_area"]) =>
                Le(results.system_size,
                   system_size([inputs EXCEPT !["rooftop_area"] = Num(a)]))

\* C12. Monotonicity: with every other input fixed, a larger rooftop_area
\* never gives a smaller system_size, and a weather_condition with a larger
\* factor (Very Cloudy < Rainy < Cloudy < Partly Cloudy < Mostly Sunny < Sunny)
\* never gives a smaller annual_generation.
C12_Monotonicity ==
    /\ C12_AreaMonotone
    /\ Returned /\ "weather_condition" \in DOMAIN inputs
                /\ inputs["weather_condition"] \in ClaimedWeathers =>
        \A w \in ClaimedWeathers :
            ClaimedWeatherPercent([weather_condition |-> w])
                    > ClaimedWeatherPercent(inputs) =>
                Le(results.annual_generation,
                   GenerationOf([inputs EXCEPT !["weather_condition"] = w]))

\* the formulas of the 20-year projection
ClaimedProjection ==
    /\ Len(results.cumulative_savings) = 20
    /\ \A k \in 1..20 :
          Eq(results.cumulative_savings[k], Mul(results.annual_savings, Num(k)))
    /\ Eq(results.total_20_year_savings, results.cumulative_savings[20])
    /\ Eq(results.net_profit,
          Sub(results.total_20_year_savings, results.total_investment))

\* C14 as stated. 20-year projection and break-even: cumulative_savings has
\* exactly 20 values, the value of year k is annual_savings x k,
\* total_20_year_savings is the year-20 value and net_profit is
\* total_20_year_savings - total_investment; when annual_savings > 0, the year-k
\* cumulative savings reach total_investment exactly for the years
\* k >= payback_years, and net_profit >= 0 exactly when payback_years <= 20.
C14_Projection_AsStated ==
    Returned =>
        /\ ClaimedProjection
        /\ Gt(results.annual_savings, Num(0)) =>
              \A k \in 1..20 :
                  Le(results.total_investment, results.cumulative_savings[k])
                      <=> Le(results.payback_years, Num(k))
        /\ Le(Num(0), results.net_profit) <=> Le(results.payback_years, Num(20))

\* C14 amended. The four formulas hold exactly; when annual_savings > 0, the
\* year-k cumulative savings are at least total_investment in every year
\* k > payback_years and at most total_investment in every year
\* k < payback_years, and in a year k = payback_years they equal
\* total_investment up to a rounding error (relative 2^-50) on either side;
\* net_profit >= 0 when payback_years < 20, net_profit <= 0 when
\* payback_years > 20, and total_20_year_savings equals total_investment up to
\* the same rounding error when payback_years = 20.
C14_Projection ==
    Returned =>
        /\ ClaimedProjection
        /\ Gt(results.annual_savings, Num(0)) =>
              \A k \in 1..20 :
                  /\ Lt(results.payback_years, Num(k)) =>
                        Le(results.total_investment, results.cumulative_savings[k])
                  /\ Lt(Num(k), results.payback_years) =>
                        Le(results.cumulative_savings[k], results.total_investment)
                  /\ Eq(results.payback_years, Num(k)) =>
                        Close(results.cumulative_savings[k], results.total_investment)
        /\ Lt(results.payback_years, Num(20)) => Le(Num(0), results.net_profit)
        /\ Lt(Num(20), results.payback_years) => Le(results.net_profit, Num(0))
        /\ Eq(results.payback_years, Num(20)) =>
              Close(results.total_20_year_savings, results.total_investment)

\* payback_years is 20.0, yet the savings of 20 years stay one unit in the last
\* place below the investment of 250614 and net_profit is negative
C14_Witness ==
    /\ Returned
    /\ Eq(inputs["monthly_units"], Frac(68255, 10))
    /\ Eq(results.total_investment, Num(250614))
    /\ Eq(results.payback_years, Num(20))
    /\ Lt(results.cumulative_savings[20], results.total_investment)
    /\ Close(results.cumulative_savings[20], results.total_investment)
    /\ Lt(results.net_profit, Num(0))
    /\ Le(results.total_investment, results.cumulative_savings[19]) = FALSE

\* the consumption of a year
ClaimedConsumption == Mul(Num(12), inputs["monthly_units"])

\* the generation of an average month
ClaimedMonthlyAverage == Div(results.annual_generation, Num(12))

\* the roof-area cap binds, and by more than the rounding of the two sizes
ClearlyCapped ==
    Gt(ClaimedRequiredSize,
       Mul(ClaimedMaxSize, Add(Num(1), [s |-> 1, m |-> << 1 >>, e |-> -50])))

\* C15 as stated. Generation never exceeds consumption: for every valid input
\* annual_generation <= 12 x monthly_units, with equality exactly when the
\* roof-area cap does not bind; the min of the savings step is always
\* annual_generation / 12, and monthly_savings is
\* (annual_generation / 12) x (monthly_bill / monthly_units).
C15_NoSurplus_AsStated ==
    Returned =>
        /\ Le(results.annual_generation, ClaimedConsumption)
        /\ Eq(results.annual_generation, ClaimedConsumption)
              <=> ~Gt(ClaimedRequiredSize, ClaimedMaxSize)
        /\ Eq(Min(inputs["monthly_units"], ClaimedMonthlyAverage), ClaimedMonthlyAverage)
        /\ Eq(results.monthly_savings,
              Mul(ClaimedMonthlyAverage,
                  Div(inputs["monthly_bill"], inputs["monthly_units"])))

\* C15 amended. For every valid input annual_generation exceeds
\* 12 x monthly_units by no more than a rounding error (relative 2^-50); when
\* the roof-area cap does not bind, annual_generation equals 12 x monthly_units
\* up to that rounding error, on either side; when the cap binds by more than
\* the rounding error, annual_generation is strictly below 12 x monthly_units
\* and the min of the savings step is annual_generation / 12.  monthly_savings is
\* min(monthly_units, annual_generation / 12) x (monthly_bill / monthly_units),
\* where the min equals annual_generation / 12 up to the rounding error.
C15_NoSurplus ==
    Returned =>
        /\ \/ Le(results.annual_generation, ClaimedConsumption)
           \/ Close(results.annual_generation, ClaimedConsumption)
        /\ ~Gt(ClaimedRequiredSize, ClaimedMaxSize) =>
              Close(results.annual_generation, ClaimedConsumption)
        /\ ClearlyCapped =>
              /\ Lt(results.annual_generation, ClaimedConsumption)
              /\ Eq(Min(inputs["monthly_units"], ClaimedMonthlyAverage),
                    ClaimedMonthlyAverage)
        /\ Close(Min(inputs["monthly_units"], ClaimedMonthlyAverage),
                 ClaimedMonthlyAverage)
        /\ Eq(results.monthly_savings,
              Mul(Min(inputs["monthly_units"], ClaimedMonthlyAverage),
                  Div(inputs["monthly_bill"], inputs["monthly_units"])))

\* 700 kWh under a roof that does not bind: the generation of the year is above
\* 8400 kWh by one unit in the last place, the min of the savings step is
\* monthly_units, and the savings differ from those of the generation
C15_Witness ==
    /\ Returned
    /\ Eq(inputs["monthly_units"], Num(700))
    /\ Gt(inputs["monthly_bill"], Num(0))
    /\ ~Gt(ClaimedRequiredSize, ClaimedMaxSize)
    /\ Gt(results.annual_generation, ClaimedConsumption)
    /\ Close(results.annual_generation, ClaimedConsumption)
    /\ Eq(Min(inputs["monthly_units"], ClaimedMonthlyAverage), inputs["monthly_units"])
    /\ ~Eq(results.monthly_savings,
           Mul(ClaimedMonthlyAverage,
               Div(inputs["monthly_bill"], inputs["monthly_units"])))

(***************************************************************************)
(* Properties of the script (Spec)                                         *)
(***************************************************************************)
\* non-positive consumption or area, or a negative bill
InvalidInputs(in) ==
    \/ Le(in["monthly_units"], Num(0))
    \/ Le(in["rooftop_area"], Num(0))
    \/ Lt(in["monthly_bill"], Num(0))

AcceptableForm(f) ==
    /\ f.location # ""
    /\ Gt(FormInputs(f)["rooftop_area"], Num(0))
    /\ Gt(FormInputs(f)["monthly_units"], Num(0))

\* C9 as stated. Every Calculate action invokes the estimator exactly once,
\* and no other user action invokes it.
C9_OncePerCalculate_AsStated ==
    /\ [][event' = "calculate" => Len(callLog') = Len(callLog) + 1]_vars
    /\ [][event' # "calculate" => callLog' = callLog]_vars

\* C9 amended. A Calculate action whose request passes the handler's test
\* (a location is chosen, rooftop_area > 0, monthly_units > 0) invokes the
\* estimator exactly once; a Calculate action whose request fails the test
\* invokes it zero times; no other user action invokes it.
C9_OncePerCalculate ==
    /\ [][event' = "calculate" /\ AcceptableForm(form)
            => Len(callLog') = Len(callLog) + 1
               /\ callLog'[Len(callLog')].inputs = FormInputs(form)]_vars
    /\ [][event' = "calculate" /\ ~AcceptableForm(form) => callLog' = callLog]_vars
    /\ [][event' # "calculate" => callLog' = callLog]_vars

\* one accepted Calculate action, then a rejected one: one invocation in all
C9_Witness ==
    /\ event = "calculate"
    /\ message = "error"
    /\ form.location = ""
    /\ Len(callLog) = 1

\* the accepted Calculate actions so far, the most recent one last
LastAccepted == callLog[Len(callLog)]

\* C13. Stored results stay consistent: in every state reachable by page
\* navigations, form edits and Calculate actions, when the flag calculated is
\* true the stored results are calculate_solar_roi(stored inputs) and the stored
\* inputs are those of the most recent accepted Calculate action; calculated
\* never returns to false; navigation and a rejected Calculate action leave
\* calculated, inputs and results unchanged; the Results and Recommendations
\* pages show stored results only when calculated is true, and then the stored
\* ones.
C13_StoredResults ==
    /\ [](session_state.calculated =>
            /\ "inputs" \in DOMAIN session_state
            /\ session_state.results = calculate_solar_roi(session_state.inputs)
            /\ Len(callLog) > 0
            /\ session_state.inputs = LastAccepted.inputs
            /\ session_state.results = LastAccepted.results)
    /\ [](~session_state.calculated => Len(callLog) = 0)
    /\ [][session_state.calculated => session_state'.calculated]_vars
    /\ [][event' = "navigate" \/ (event' = "calculate" /\ message' = "error")
            => session_state' = session_state]_vars
    /\ [](Rendered(page, session_state).shows = "report" =>
            /\ session_state.calculated
            /\ Rendered(page, session_state).results = session_state.results
            /\ Rendered(page, session_state).inputs = session_state.inputs)
    /\ [](~session_state.calculated /\ page # "Input Details" =>
            Rendered(page, session_state).shows \in {"nothing", "warning"})

\* two accepted Calculate actions with different inputs, then the Results page:
\* it shows the report of the second one
C13_Witness ==
    /\ page = "Results & Analysis"
    /\ Len(callLog) = 2
    /\ callLog[1].inputs # callLog[2].inputs
    /\ callLog[1].results # callLog[2].results
    /\ session_state.calculated
    /\ Rendered(page, session_state).shows = "report"
    /\ Rendered(page, session_state).results = callLog[2].results

=============================================================================
